---- MODULE Spec2Model ----
(***************************************************************************)
(* Order lifecycle of app/utils.py: handle_enter_trade (entry sizing,      *)
(* bounded fill wait, market fallback, audit record, protective orders),   *)
(* handle_exit_trade (cancel, close at market, profit/loss record),         *)
(* BinanceHelper.cancel_related_orders and                                  *)
(* BinanceHelper.monitor_children_and_cancel, against an exchange whose    *)
(* answers are nondeterministic.                                           *)
(*                                                                         *)
(* Decimal values are fixed-point integers: quantities in 1/QtyScale,      *)
(* prices in 1/PriceScale, percentages in 1/PctScale of one percent.       *)
(* An optional payload field is <<>> (None) or <<v>>.                      *)
(***************************************************************************)
EXTENDS Integers, Sequences, FiniteSets, TLC

\* ------------------------------------------------------------------ scales
QtyDigits == 3
PriceDigits == 1
QtyScale == 10 * 10 * 10
PriceScale == 10
PctScale == 100

\* ------------------------------------------------------------ program constants
MIN_NOTIONAL == 5
FUT_INTERVAL == 15
FUT_MAX_WAIT == 300
SPOT_INTERVAL == 5
SPOT_MAX_WAIT == 60

\* ------------------------------------------------------------------ inputs
None == <<>>
IsNone(x) == x = <<>>
Val(x) == x[1]

Actions == {"BUY", "SELL"}
Prices == {50, 500000}
Margins == {5, 10000}
Leverages == {None, <<10>>}
PercentsOfEquity == {1000}

\* (take_profit_percent, stop_loss_percent, trailing_stop_percentage), each
\* absent, negative, zero or positive (1000 is 10%, 5 is 0.05%).
Protections ==
  { << <<0>>, <<0>>, <<0>> >>,
    << <<1000>>, <<0>>, <<0>> >>,
    << <<0>>, <<1000>>, <<0>> >>,
    << <<0>>, <<0>>, <<200>> >>,
    << <<1000>>, <<1000>>, <<200>> >>,
    << <<1000>>, <<-500>>, <<5>> >>,
    << <<-500>>, <<300>>, <<-500>> >>,
    << None, <<1000>>, <<200>> >>,
    << <<1000>>, None, None >> }

\* InstrumentRules as get_symbol_info returns them (precision covers the
\* step): ticks of 0.1 and of 0.5.
SymbolInfos ==
  { [tick_size |-> 1, step_size |-> 1, price_precision |-> 2, quantity_precision |-> 3],
    [tick_size |-> 5, step_size |-> 10, price_precision |-> 1, quantity_precision |-> 2] }

Payloads ==
  { [ order_action |-> a, order_price |-> p, leverage |-> l, percent_of_equity |-> e,
      take_profit_percent |-> x[1], stop_loss_percent |-> x[2],
      trailing_stop_percentage |-> x[3] ] :
    a \in Actions, p \in Prices, l \in Leverages, e \in PercentsOfEquity,
    x \in Protections }

\* ------------------------------------------------------------ pure functions
Pow10(n) == IF n <= 0 THEN 1 ELSE IF n = 1 THEN 10 ELSE IF n = 2 THEN 100 ELSE 1000

\* Decimal digits after the point of a step given in 1/10^digits units:
\* abs(step_size.as_tuple().exponent)
StepExponent(step, digits) ==
  IF step % 10 # 0 THEN digits
  ELSE IF step % 100 # 0 THEN digits - 1
  ELSE IF step % 1000 # 0 THEN digits - 2
  ELSE digits - 3

\* n / d rounded half-even (the rounding of Decimal.__format__), n >= 0.
RoundHalfEven(n, d) ==
  LET q == n \div d
      r == n % d
  IN IF 2 * r > d \/ (2 * r = d /\ q % 2 = 1) THEN q + 1 ELSE q

\* n / d truncated (ROUND_DOWN), n >= 0.
RoundDown(n, d) == n \div d

\* format_val: value (in 1/10^digits) rendered with `precision` decimals, as
\* the value the exchange reads back, again in 1/10^digits.
format_val(value, digits, precision) ==
  IF precision >= digits THEN value
  ELSE RoundHalfEven(value, Pow10(digits - precision)) * Pow10(digits - precision)

\* Decimal's // : the quotient truncated toward zero (d > 0).
TruncDiv(n, d) == IF n >= 0 THEN n \div d ELSE 0 - ((0 - n) \div d)

\* The nearest multiple of the step instead of the one toward zero.
adjust_to_step_Nearest(num, den, step_size) ==
  TruncDiv(2 * num + den * step_size, 2 * den * step_size) * step_size

\* The result quantized to one decimal fewer than the step has.
adjust_to_step_Coarser(num, den, step_size) ==
  LET adjusted == TruncDiv(num, den * step_size) * step_size
      unit == Pow10(QtyDigits - StepExponent(step_size, QtyDigits) + 1)
  IN TruncDiv(adjusted, unit) * unit

\* adjust_to_step on a rational num/den (den > 0), result in the units of
\* step: (value // step_size) * step_size, then quantize ROUND_DOWN to the
\* exponent of step_size.
adjust_to_step(num, den, step_size) ==
  LET adjusted == TruncDiv(num, den * step_size) * step_size
      unit == Pow10(QtyDigits - StepExponent(step_size, QtyDigits))
  IN TruncDiv(adjusted, unit) * unit

\* The margin not multiplied by the leverage.
RawQtyNum_NoLeverage(m, lev, pe) ==
  (m * pe) * ((QtyScale * PriceScale) \div (100 * PctScale))

\* raw_qty / step as numerator and denominator: lines 438 and 617.
\* percent_equity = percent_of_equity / 100, quantities in 1/QtyScale,
\* prices in 1/PriceScale.
RawQtyNum(m, lev, pe) ==
  (IF IsNone(lev) THEN m * pe ELSE m * Val(lev) * pe)
    * ((QtyScale * PriceScale) \div (100 * PctScale))

raw_qty_adjusted(m, lev, pe, price, step_size) ==
  adjust_to_step(RawQtyNum(m, lev, pe), price, step_size)

\* The floor compared without its scale.
BelowMinNotional_Unscaled(q, price) == q * price < MIN_NOTIONAL

\* notional < Decimal(str(Config.MIN_NOTIONAL)), lines 443-444 and 621-622.
BelowMinNotional(q, price) == q * price < MIN_NOTIONAL * QtyScale * PriceScale

\* ------------------------------------------------------------------ state
VARIABLES
  payload,      \* the dict handle_enter_trade receives
  proc,         \* which operation runs: "enter" or "monitor"
  pc,           \* position in that operation
  outcome,      \* "running", "Raised", "Aborted", "Completed", ...
  margin,       \* availableBalance / free balance as read
  symbol_info,  \* InstrumentRules as read
  qty,          \* sized quantity
  entry_id,     \* id of the entry order (limit, then fallback)
  elapsed,      \* seconds waited in the poll loop
  filled_price, \* realized entry price (<<>> until captured)
  filled_qty,
  orders,       \* the exchange's orders of the instrument; id = index
  calls,        \* exchange calls issued, in order
  audit,        \* rows log_transaction wrote
  cro_queue,    \* cancel_related_orders: open orders still to visit
  cro_ret,      \* cancel_related_orders: where the caller continues
  child_order_ids, \* monitor_children_and_cancel: tracked ids
  position_amt,    \* the exchange's position size, signed (positionAmt)
  mon_idx,         \* monitor: index of the child being checked
  mon_flat,        \* monitor: the position read of this tick was flat
  ticks,           \* monitor: completed poll ticks
  pos,             \* handle_exit_trade: the position as read
  exit_price,      \* handle_exit_trade: realized price of the close
  exit_id,         \* handle_exit_trade: id of the close order
  fn_value,        \* adjust_to_step: the argument value
  fn_step,         \* adjust_to_step: the argument step_size
  fn_result,       \* adjust_to_step: <<result>>, <<>> before the call or when it raised
  fn_again,        \* adjust_to_step applied to that result: <<result>>, <<>> before
  available,       \* the account's availableBalance / free balance on the exchange
  csv_exists,      \* os.path.exists(logs/transactions.csv)
  csv,             \* the rows of logs/transactions.csv
  log_pc,          \* log_transaction: the position of each running call
  log_row          \* log_transaction: the row each call has appended, 0 before

vars == << payload, proc, pc, outcome, margin, symbol_info, qty, entry_id, elapsed,
           filled_price, filled_qty, orders, calls, audit, cro_queue, cro_ret,
           child_order_ids, position_amt, mon_idx, mon_flat, ticks,
           pos, exit_price, exit_id, fn_value, fn_step, fn_result, fn_again, available,
           csv_exists, csv, log_pc, log_row >>

enterVars == << margin, symbol_info, qty, entry_id, elapsed, filled_price, filled_qty >>
monVars == << child_order_ids, mon_idx, mon_flat, ticks >>
croVars == << cro_queue, cro_ret >>
exitVars == << pos, exit_price, exit_id >>
fnVars == << fn_value, fn_step, fn_result, fn_again >>
logVars == << csv_exists, csv, log_pc, log_row >>

is_futures == ~IsNone(payload.leverage)

\* payload["ticker"], and the instrument of another invocation.
ticker == "BTCUSDT"
other_ticker == "ETHUSDT"
action == payload.order_action
interval == IF is_futures THEN FUT_INTERVAL ELSE SPOT_INTERVAL

\* A wait budget one interval longer.
max_wait_OneMore ==
  IF is_futures THEN FUT_MAX_WAIT + FUT_INTERVAL ELSE SPOT_MAX_WAIT + SPOT_INTERVAL

max_wait == IF is_futures THEN FUT_MAX_WAIT ELSE SPOT_MAX_WAIT

Call(op, ok, id) == [op |-> op, ok |-> ok, id |-> id]

\* pos before handle_exit_trade read it.
NoPosition == [positionAmt |-> 0, entryPrice |-> 0]

Order(type, side, quantity, price, callbackRate, closePosition, status) ==
  [type |-> type, side |-> side, quantity |-> quantity, price |-> price,
   callbackRate |-> callbackRate, closePosition |-> closePosition,
   reduceOnly |-> FALSE, status |-> status, symbol |-> ticker]

\* An exception leaves handle_enter_trade (the Celery task logs it).
Raise ==
  /\ pc' = "done"
  /\ outcome' = "Raised"

\* `continue` where the poll loop returns.
Abort_Continue ==
  /\ pc' = "poll"
  /\ outcome' = outcome

\* `return` out of the poll loop: lines 483 and 487.
Abort ==
  /\ pc' = "done"
  /\ outcome' = "Aborted"

\* -------------------------------------------------------- handle_enter_trade
\* Lines 418-431: Decimal(str(None)) raises for an absent percentage.
ParsePayload ==
  /\ proc = "enter" /\ pc = "parse"
  /\ IF \/ IsNone(payload.take_profit_percent)
        \/ IsNone(payload.stop_loss_percent)
        \/ IsNone(payload.trailing_stop_percentage)
     THEN Raise
     ELSE /\ pc' = IF is_futures THEN "set_leverage" ELSE "symbol_info"
          /\ UNCHANGED outcome
  /\ UNCHANGED << payload, logVars, available, exitVars, fnVars, proc, enterVars, orders, calls, audit, croVars, monVars,
                  position_amt >>

\* The sizing without the futures_change_leverage call.
SetLeverage_Skipped ==
  /\ proc = "enter" /\ pc = "set_leverage"
  /\ pc' = "account"
  /\ UNCHANGED << payload, logVars, available, exitVars, fnVars, proc, outcome, enterVars, orders, calls, audit,
                  croVars, monVars, position_amt >>

\* Line 434.
SetLeverage ==
  /\ proc = "enter" /\ pc = "set_leverage"
  /\ \E ok \in BOOLEAN :
       /\ calls' = Append(calls, Call("change_leverage", ok, 0))
       /\ IF ok THEN pc' = "account" /\ UNCHANGED outcome ELSE Raise
  /\ UNCHANGED << payload, logVars, available, exitVars, fnVars, proc, enterVars, orders, audit, croVars, monVars,
                  position_amt >>

\* Line 437 (futures_account) and line 616 (get_asset_balance).
ReadMargin ==
  /\ proc = "enter" /\ pc = "account"
  /\ \/ /\ calls' = Append(calls, Call("account", FALSE, 0))
        /\ Raise
        /\ UNCHANGED margin
     \/ /\ calls' = Append(calls, Call("account", TRUE, 0))
        /\ margin' = available
        /\ pc' = IF is_futures THEN "symbol_info" ELSE "size"
        /\ UNCHANGED outcome
  /\ UNCHANGED << payload, logVars, available, exitVars, fnVars, proc, symbol_info, qty, entry_id, elapsed, filled_price,
                  filled_qty, orders, audit, croVars, monVars, position_amt >>

\* Lines 439 and 615: get_symbol_info / get_symbol_info_spot.
GetSymbolInfo ==
  /\ proc = "enter" /\ pc = "symbol_info"
  /\ \/ /\ calls' = Append(calls, Call("exchange_info", FALSE, 0))
        /\ Raise
        /\ UNCHANGED symbol_info
     \/ \E si \in SymbolInfos :
          /\ calls' = Append(calls, Call("exchange_info", TRUE, 0))
          /\ symbol_info' = si
          /\ pc' = IF is_futures THEN "size" ELSE "account"
          /\ UNCHANGED outcome
  /\ UNCHANGED << payload, logVars, available, exitVars, fnVars, proc, margin, qty, entry_id, elapsed, filled_price,
                  filled_qty, orders, audit, croVars, monVars, position_amt >>

\* Lines 438-445 and 617-623: size the order, check MIN_NOTIONAL.
SizeOrder ==
  /\ proc = "enter" /\ pc = "size"
  /\ qty' = raw_qty_adjusted(margin, payload.leverage, payload.percent_of_equity,
                             payload.order_price, symbol_info.step_size)
  /\ IF BelowMinNotional(qty', payload.order_price)
     THEN Raise
     ELSE pc' = "place_limit" /\ UNCHANGED outcome
  /\ UNCHANGED << payload, logVars, available, exitVars, fnVars, proc, margin, symbol_info, entry_id, elapsed, filled_price,
                  filled_qty, orders, calls, audit, croVars, monVars, position_amt >>

\* Lines 448-456 and 626-634: the LIMIT entry, GTC.
PlaceLimit ==
  /\ proc = "enter" /\ pc = "place_limit"
  /\ \/ /\ calls' = Append(calls, Call("create_LIMIT", FALSE, 0))
        /\ Raise
        /\ UNCHANGED << orders, entry_id >>
     \/ /\ orders' = Append(orders,
             Order("LIMIT", action,
                   format_val(qty, QtyDigits, symbol_info.quantity_precision),
                   format_val(payload.order_price, PriceDigits, symbol_info.price_precision),
                   0, FALSE, "NEW"))
        /\ entry_id' = Len(orders')
        /\ calls' = Append(calls, Call("create_LIMIT", TRUE, entry_id'))
        /\ pc' = "poll"
        /\ UNCHANGED outcome
  /\ UNCHANGED << payload, logVars, available, exitVars, fnVars, proc, margin, symbol_info, qty, elapsed, filled_price,
                  filled_qty, audit, croVars, monVars, position_amt >>

\* What a status read of a live order may show next: the exchange fills,
\* cancels, rejects or expires it on its own.
PollReplies(status) ==
  IF status = "NEW"
  THEN {"NEW", "PARTIALLY_FILLED", "FILLED", "CANCELED", "REJECTED", "EXPIRED"}
  ELSE IF status = "PARTIALLY_FILLED"
  THEN {"PARTIALLY_FILLED", "FILLED", "CANCELED", "EXPIRED"}
  ELSE {status}

\* avgPrice of a filled order as the exchange reports it: absent, or a price.
AvgPriceReplies(p) == {None, << p + PriceScale >>}

\* Decimal(info.get('avgPrice') or info.get('price')): lines 475 and 510.
FillPrice(avgPrice, price) == IF IsNone(avgPrice) THEN price ELSE Val(avgPrice)

\* EXPIRED left out of the list.
TerminalStatuses_NoExpired == {"CANCELED", "REJECTED"}

\* status in ['CANCELED', 'REJECTED', 'EXPIRED']: lines 481 and 659.
TerminalStatuses == {"CANCELED", "REJECTED", "EXPIRED"}

SetStatus(os, id, st) == [os EXCEPT ![id].status = st]

Signed(side, q) == IF side = "BUY" THEN q ELSE 0 - q

\* The exchange's position once order id is seen in status st: an entry
\* order that completes moves the position by its quantity.
PositionAfter(os, id, st) ==
  IF st = "FILLED" /\ os[id].status # "FILLED"
  THEN position_amt + Signed(os[id].side, os[id].quantity)
  ELSE position_amt

\* Lines 469-490 (futures) and 647-668 (spot): one pass of the poll loop.
PollEntry ==
  /\ proc = "enter" /\ pc = "poll"
  /\ elapsed < max_wait
  /\ \/ /\ calls' = Append(calls, Call("get_order", FALSE, entry_id))
        /\ Abort
        /\ UNCHANGED << orders, elapsed, filled_price, filled_qty, position_amt >>
     \/ \E status \in PollReplies(orders[entry_id].status) :
          /\ calls' = Append(calls, Call("get_order", TRUE, entry_id))
          /\ orders' = SetStatus(orders, entry_id, status)
          /\ position_amt' = PositionAfter(orders, entry_id, status)
          /\ IF status = "FILLED"
             THEN /\ \E avg \in AvgPriceReplies(orders[entry_id].price) :
                       filled_price' = << FillPrice(avg, orders[entry_id].price) >>
                  /\ filled_qty' = orders[entry_id].quantity
                  /\ pc' = "fee"
                  /\ UNCHANGED << outcome, elapsed >>
             ELSE IF status \in TerminalStatuses
             THEN /\ Abort
                  /\ UNCHANGED << elapsed, filled_price, filled_qty >>
             ELSE /\ elapsed' = elapsed + interval
                  /\ pc' = IF elapsed' < max_wait THEN "poll" ELSE "cancel_limit"
                  /\ UNCHANGED << outcome, filled_price, filled_qty >>
  /\ UNCHANGED << payload, logVars, available, exitVars, fnVars, proc, margin, symbol_info, qty, entry_id, audit, croVars,
                  monVars >>

\* The fallback without the cancel call.
CancelStaleLimit_Skipped ==
  /\ proc = "enter" /\ pc = "cancel_limit"
  /\ pc' = "place_market"
  /\ UNCHANGED << payload, logVars, available, exitVars, fnVars, proc, outcome, enterVars, orders, calls, audit, croVars,
                  monVars, position_amt >>

\* Lines 494-497 and 673-676: the cancel of the stale LIMIT; its failure is
\* logged and the flow goes on.  A cancel fails when the order is no longer
\* open, so the order may have filled in the meantime.
CancelStaleLimit ==
  /\ proc = "enter" /\ pc = "cancel_limit"
  /\ \/ /\ calls' = Append(calls, Call("cancel_order", TRUE, entry_id))
        /\ orders' = SetStatus(orders, entry_id, "CANCELED")
        /\ UNCHANGED position_amt
     \/ \E st \in {orders[entry_id].status, "FILLED"} :
          /\ calls' = Append(calls, Call("cancel_order", FALSE, entry_id))
          /\ orders' = SetStatus(orders, entry_id, st)
          /\ position_amt' = PositionAfter(orders, entry_id, st)
  /\ pc' = "place_market"
  /\ UNCHANGED << payload, logVars, available, exitVars, fnVars, proc, outcome, enterVars, audit, croVars, monVars >>

\* Lines 499-505 and 678-684: the fallback MARKET, same side and quantity.
PlaceMarket ==
  /\ proc = "enter" /\ pc = "place_market"
  /\ \/ /\ calls' = Append(calls, Call("create_MARKET", FALSE, 0))
        /\ Raise
        /\ UNCHANGED << orders >>
     \/ /\ orders' = Append(orders,
             Order("MARKET", action,
                   format_val(qty, QtyDigits, symbol_info.quantity_precision),
                   0, 0, FALSE, "NEW"))
        /\ calls' = Append(calls, Call("create_MARKET", TRUE, Len(orders')))
        /\ pc' = "get_market"
        /\ UNCHANGED outcome
  /\ UNCHANGED << payload, logVars, available, exitVars, fnVars, proc, enterVars, audit, croVars, monVars, position_amt >>

\* mkt_order['orderId']: the id of this invocation's MARKET order.
fallback_id ==
  CHOOSE i \in 1..Len(orders) : orders[i].type = "MARKET" /\ orders[i].symbol = ticker

\* Lines 508-515 and 687-695: read the fallback's fill details; its status
\* is not looked at.  An order not yet filled reports price 0 and quantity 0.
ReadFallbackFill ==
  /\ proc = "enter" /\ pc = "get_market"
  /\ \/ /\ calls' = Append(calls, Call("get_order", FALSE, fallback_id))
        /\ Raise
        /\ UNCHANGED << orders, entry_id, filled_price, filled_qty, position_amt >>
     \/ \E status \in {"NEW", "FILLED"} :
          /\ calls' = Append(calls, Call("get_order", TRUE, fallback_id))
          /\ orders' = SetStatus(orders, fallback_id, status)
          /\ position_amt' = PositionAfter(orders, fallback_id, status)
          /\ filled_price' = IF status = "FILLED"
                             THEN << payload.order_price + PriceScale >>
                             ELSE << 0 >>
          /\ filled_qty' = IF status = "FILLED" THEN orders[fallback_id].quantity ELSE 0
          /\ entry_id' = fallback_id
          /\ pc' = "fee"
          /\ UNCHANGED outcome
  /\ UNCHANGED << payload, logVars, available, exitVars, fnVars, proc, margin, symbol_info, qty, elapsed, audit, croVars,
                  monVars >>

CommissionReplies == {2}

AuditRow(type, q, notional, fee, order_id) ==
  [type |-> type, qty |-> q, notional |-> notional, fee |-> fee, order_id |-> order_id]

\* The note names the id create_order returned for the LIMIT.
NoteOrderId_Limit == CHOOSE i \in 1..Len(orders) : orders[i].type = "LIMIT"

\* The id the note f"Order {entry_id}" names: line 530 (and 708).
NoteOrderId == entry_id

\* fetch_order_commission (lines 94-110, it swallows its own failure) at
\* lines 477 and 512, then log_transaction("enter", ...) at lines 520-531.
FetchFeeAndLog ==
  /\ proc = "enter" /\ pc = "fee"
  /\ \E fee \in CommissionReplies \cup {0} :
       /\ calls' = Append(calls, Call("account_trades", fee # 0, entry_id))
       /\ audit' = Append(audit,
            AuditRow("enter", filled_qty, Val(filled_price) * filled_qty, fee, NoteOrderId))
  /\ pc' = "cro_list"
  /\ cro_ret' = "sl"
  /\ UNCHANGED << payload, logVars, available, exitVars, fnVars, proc, outcome, enterVars, orders, cro_queue, monVars,
                  position_amt >>

\* ------------------------------------------------------ cancel_related_orders
ProtectiveTypes == {"TAKE_PROFIT_MARKET", "STOP_MARKET", "TRAILING_STOP_MARKET"}

RECURSIVE OpenIdsFrom(_, _)
OpenIdsFrom(os, i) ==
  IF i > Len(os) THEN << >>
  ELSE IF os[i].status \in {"NEW", "PARTIALLY_FILLED"}
       THEN << i >> \o OpenIdsFrom(os, i + 1)
       ELSE OpenIdsFrom(os, i + 1)

RECURSIVE OfSymbol(_, _, _)
OfSymbol(os, ids, sym) ==
  IF ids = << >> THEN << >>
  ELSE IF os[Head(ids)].symbol = sym
       THEN << Head(ids) >> \o OfSymbol(os, Tail(ids), sym)
       ELSE OfSymbol(os, Tail(ids), sym)

\* The open orders of every instrument of the account.
OpenOrderIds_AllSymbols(os) == OpenIdsFrom(os, 1)

\* futures_get_open_orders(symbol=ticker): the ids of the instrument's open
\* orders.
OpenOrderIds(os) == OfSymbol(os, OpenIdsFrom(os, 1), ticker)

RECURSIVE RelatedOf(_, _)
RelatedOf(os, ids) ==
  IF ids = << >> THEN << >>
  ELSE IF os[Head(ids)].type \in ProtectiveTypes
       THEN << Head(ids) >> \o RelatedOf(os, Tail(ids))
       ELSE RelatedOf(os, Tail(ids))

\* An exception other than BinanceAPIException leaves cancel_related_orders:
\* handle_enter_trade and handle_exit_trade let it through,
\* monitor_children_and_cancel catches it (lines 296-298) and returns.
CroPropagate ==
  /\ pc' = "done"
  /\ outcome' = IF proc = "monitor" THEN "MonitorAborted" ELSE "Raised"

\* `return` of cancel_related_orders to its caller.
CroReturn ==
  /\ pc' = cro_ret
  /\ outcome' = IF cro_ret = "done" THEN "Closed" ELSE outcome

\* Lines 228-229.
CroList ==
  /\ pc = "cro_list"
  /\ \/ /\ calls' = Append(calls, Call("open_orders", FALSE, 0))
        /\ \/ CroReturn          \* BinanceAPIException: logged at line 239
           \/ CroPropagate
        /\ UNCHANGED cro_queue
     \/ /\ calls' = Append(calls, Call("open_orders", TRUE, 0))
        /\ cro_queue' = RelatedOf(orders, OpenOrderIds(orders))
        /\ IF cro_queue' = << >> THEN CroReturn
           ELSE pc' = "cro_next" /\ UNCHANGED outcome
  /\ UNCHANGED << payload, logVars, available, exitVars, fnVars, proc, enterVars, orders, audit, cro_ret, monVars,
                  position_amt >>

\* Lines 230-237: one pass of the loop; the try of line 228 encloses it, so
\* a BinanceAPIException ends the loop (line 238).
CroNext ==
  /\ pc = "cro_next"
  /\ LET oid == Head(cro_queue) IN
     \/ /\ orders[oid].status \in {"NEW", "PARTIALLY_FILLED"}
        /\ calls' = Append(calls, Call("cancel_order", TRUE, oid))
        /\ orders' = SetStatus(orders, oid, "CANCELED")
        /\ cro_queue' = Tail(cro_queue)
        /\ IF cro_queue' = << >> THEN CroReturn
           ELSE pc' = "cro_next" /\ UNCHANGED outcome
     \/ /\ calls' = Append(calls, Call("cancel_order", FALSE, oid))
        /\ UNCHANGED << orders, cro_queue >>
        /\ \/ CroReturn
           \/ CroPropagate
  /\ UNCHANGED << payload, logVars, available, exitVars, fnVars, proc, enterVars, audit, cro_ret, monVars, position_amt >>

\* ------------------------------------------------------- protective orders
\* floor(x * num / den) for x, num >= 0, den > 0, without a wide product.
MulDivFloor(x, num, den) == (x \div den) * num + ((x % den) * num) \div den

Hundred == 100 * PctScale

\* tp_pct, sl_pct, trail_pct of lines 429-431 are p / Hundred: the payload's
\* percentage over 100, leverage not involved.
\* (price * (1 + pct)).quantize(tick_size, ROUND_DOWN): lines 551, 566.
PriceUp(price, p, tick_size) ==
  LET unit == Pow10(PriceDigits - StepExponent(tick_size, PriceDigits))
  IN RoundDown(MulDivFloor(price, Hundred + p, Hundred), unit) * unit

\* (price * (1 - pct)).quantize(tick_size, ROUND_DOWN): lines 539, 578.
PriceDown(price, p, tick_size) ==
  LET unit == Pow10(PriceDigits - StepExponent(tick_size, PriceDigits))
  IN RoundDown(MulDivFloor(price, Hundred - p, Hundred), unit) * unit

sl_price ==
  IF action = "BUY"
  THEN PriceDown(Val(filled_price), Val(payload.stop_loss_percent), symbol_info.tick_size)
  ELSE PriceUp(Val(filled_price), Val(payload.stop_loss_percent), symbol_info.tick_size)

tp_price ==
  IF action = "BUY"
  THEN PriceUp(Val(filled_price), Val(payload.take_profit_percent), symbol_info.tick_size)
  ELSE PriceDown(Val(filled_price), Val(payload.take_profit_percent), symbol_info.tick_size)

\* Lines 592-593: the trailing percentage, raised to 0.1 when below it.
MinCallback == PctScale \div 10
callback_rate ==
  LET raw_callback == Val(payload.trailing_stop_percentage)
  IN IF raw_callback >= MinCallback THEN raw_callback ELSE MinCallback

\* Line 602: the logger.info line that follows the trailing-stop order.
TrailingLogLine(rate) ==
  << "Placed FUTURES TRAILING_STOP_MARKET with callbackRate", rate >>

\* The protective order on the side of the entry.
Opposite_Same(side) == side

Opposite(side) == IF side = "BUY" THEN "SELL" ELSE "BUY"

\* The test written >= 0.
Requested_OrZero(p) == Val(p) >= 0

\* if sl_pct > 0 / tp_pct > 0 / trail_pct > 0: lines 537, 564, 591.
Requested(p) == Val(p) > 0

\* The order a protective create_order call asks for.
StopOrder(type, price) ==
  IF is_futures
  THEN Order(type, Opposite(action), 0,
             format_val(price, PriceDigits, symbol_info.price_precision), 0, TRUE, "NEW")
  ELSE Order(type, Opposite(action),
             format_val(filled_qty, QtyDigits, symbol_info.quantity_precision),
             format_val(price, PriceDigits, symbol_info.price_precision), 0, FALSE, "NEW")

\* One protective create_order: it succeeds, or raises out of the handler.
PlaceProtective(op, order, next) ==
  \/ /\ calls' = Append(calls, Call(op, FALSE, 0))
     /\ Raise
     /\ UNCHANGED orders
  \/ /\ orders' = Append(orders, order)
     /\ calls' = Append(calls, Call(op, TRUE, Len(orders')))
     /\ pc' = next
     /\ outcome' = IF next = "done" THEN "Completed" ELSE outcome

Skip(next) ==
  /\ pc' = next
  /\ outcome' = IF next = "done" THEN "Completed" ELSE outcome
  /\ UNCHANGED << orders, calls >>

\* Lines 536-561 (STOP_MARKET) and 714-743 (STOP_LOSS_LIMIT).
PlaceSL ==
  /\ proc = "enter" /\ pc = "sl"
  /\ IF Requested(payload.stop_loss_percent)
     THEN PlaceProtective("create_SL",
            StopOrder(IF is_futures THEN "STOP_MARKET" ELSE "STOP_LOSS_LIMIT", sl_price),
            "tp")
     ELSE Skip("tp")
  /\ UNCHANGED << payload, logVars, available, exitVars, fnVars, proc, enterVars, audit, croVars, monVars, position_amt >>

\* Lines 563-588 (TAKE_PROFIT_MARKET) and 745-774 (TAKE_PROFIT_LIMIT); the
\* spot flow ends here (line 776).
PlaceTP ==
  /\ proc = "enter" /\ pc = "tp"
  /\ IF Requested(payload.take_profit_percent)
     THEN PlaceProtective("create_TP",
            StopOrder(IF is_futures THEN "TAKE_PROFIT_MARKET" ELSE "TAKE_PROFIT_LIMIT",
                      tp_price),
            IF is_futures THEN "ts" ELSE "done")
     ELSE Skip(IF is_futures THEN "ts" ELSE "done")
  /\ UNCHANGED << payload, logVars, available, exitVars, fnVars, proc, enterVars, audit, croVars, monVars, position_amt >>

\* Lines 590-602: TRAILING_STOP_MARKET, futures only; the handler returns
\* after it.
PlaceTS ==
  /\ proc = "enter" /\ pc = "ts"
  /\ IF Requested(payload.trailing_stop_percentage)
     THEN PlaceProtective("create_TS",
            Order("TRAILING_STOP_MARKET", Opposite(action),
                  format_val(filled_qty, QtyDigits, symbol_info.quantity_precision),
                  0, callback_rate, TRUE, "NEW"),
            "done")
     ELSE Skip("done")
  /\ UNCHANGED << payload, logVars, available, exitVars, fnVars, proc, enterVars, audit, croVars, monVars, position_amt >>

\* ------------------------------------------------------------------ Spec
MaxLingering == 1

\* The position the instrument holds when the signal arrives: flat, or a
\* long of 0.200.
PriorPositions == {0, 200}

\* Protective orders a previous position left open on the exchange.
LingeringOrder(i) ==
  Order(IF i % 2 = 1 THEN "STOP_MARKET" ELSE "TAKE_PROFIT_MARKET", "SELL", 0, 0, 0, TRUE, "NEW")

Lingering(k) == [i \in 1..k |-> LingeringOrder(i)]

Init ==
  /\ payload \in Payloads
  /\ proc = "enter"
  /\ pc = "parse"
  /\ outcome = "running"
  /\ margin = 0
  /\ symbol_info = CHOOSE si \in SymbolInfos : TRUE
  /\ qty = 0
  /\ entry_id = 0
  /\ elapsed = 0
  /\ filled_price = None
  /\ filled_qty = 0
  /\ \E k \in 0..MaxLingering : orders = Lingering(k)
  /\ position_amt \in PriorPositions
  /\ Len(orders) > 0 => position_amt # 0
  /\ calls = << >>
  /\ audit = << >>
  /\ cro_queue = << >>
  /\ cro_ret = "done"
  /\ child_order_ids = << >>
  /\ mon_idx = 0
  /\ mon_flat = FALSE
  /\ ticks = 0
  /\ pos = NoPosition
  /\ exit_price = 0
  /\ exit_id = 0
  /\ fn_value = 0
  /\ fn_step = 0
  /\ fn_result = None
  /\ fn_again = None
  /\ available \in Margins
  /\ csv_exists = FALSE
  /\ csv = << >>
  /\ log_pc = << >>
  /\ log_row = << >>

Next ==
  \/ ParsePayload
  \/ SetLeverage
  \/ ReadMargin
  \/ GetSymbolInfo
  \/ SizeOrder
  \/ PlaceLimit
  \/ PollEntry
  \/ CancelStaleLimit
  \/ PlaceMarket
  \/ ReadFallbackFill
  \/ FetchFeeAndLog
  \/ CroList
  \/ CroNext
  \/ PlaceSL
  \/ PlaceTP
  \/ PlaceTS

Spec == Init /\ [][Next]_vars

\* The handler runs in one Celery task: a step that can be taken is taken.
SpecLive == Spec /\ WF_vars(Next)

\* ------------------------------------------- monitor_children_and_cancel
MaxChildren == 3
MaxTicks == 2

\* `return` of line 298: the outer except caught an exception.
MonitorAbort ==
  /\ pc' = "done"
  /\ outcome' = "MonitorAborted"

\* Lines 254-259: read the live position.
MonReadPosition ==
  /\ proc = "monitor" /\ pc = "mon_position"
  /\ \/ /\ calls' = Append(calls, Call("position_information", FALSE, 0))
        /\ MonitorAbort
        /\ UNCHANGED << mon_flat, mon_idx >>
     \/ /\ calls' = Append(calls, Call("position_information", TRUE, 0))
        /\ mon_flat' = (position_amt = 0)
        /\ mon_idx' = 1
        /\ pc' = "mon_check"
        /\ UNCHANGED outcome
  /\ UNCHANGED << payload, logVars, available, exitVars, fnVars, proc, enterVars, orders, audit, croVars, child_order_ids,
                  position_amt, ticks >>

\* Lines 261-266 and 280-285: the status read of one tracked child; a
\* failing read is skipped (`continue`).
MonCheckChild ==
  /\ proc = "monitor" /\ pc = "mon_check"
  /\ mon_idx <= Len(child_order_ids)
  /\ LET oid == child_order_ids[mon_idx] IN
     \/ /\ calls' = Append(calls, Call("get_order", FALSE, oid))
        /\ mon_idx' = mon_idx + 1
        /\ UNCHANGED pc
     \/ /\ calls' = Append(calls, Call("get_order", TRUE, oid))
        /\ IF orders[oid].status = "FILLED"
           THEN pc' = "mon_fee" /\ UNCHANGED mon_idx
           ELSE mon_idx' = mon_idx + 1 /\ UNCHANGED pc
  /\ UNCHANGED << payload, logVars, available, exitVars, fnVars, proc, outcome, enterVars, orders, audit, croVars,
                  child_order_ids, position_amt, mon_flat, ticks >>

\* Lines 267-277 and 286-294: fetch_order_commission, logger.info of the
\* fill (no log_transaction), then cancel_related_orders and return.
MonFilled ==
  /\ proc = "monitor" /\ pc = "mon_fee"
  /\ \E ok \in BOOLEAN :
       calls' = Append(calls, Call("account_trades", ok, child_order_ids[mon_idx]))
  /\ pc' = "cro_list"
  /\ cro_ret' = "done"
  /\ UNCHANGED << payload, logVars, available, exitVars, fnVars, proc, outcome, enterVars, orders, audit, cro_queue, monVars,
                  position_amt >>

\* The for loop is over.  Flat position: lines 276-277, cancel and return.
\* Open position: line 300, sleep and run the next tick.
MonEndOfChildren ==
  /\ proc = "monitor" /\ pc = "mon_check"
  /\ mon_idx > Len(child_order_ids)
  /\ IF mon_flat
     THEN /\ pc' = "cro_list"
          /\ cro_ret' = "done"
          /\ UNCHANGED ticks
     ELSE /\ ticks < MaxTicks
          /\ ticks' = ticks + 1
          /\ pc' = "mon_position"
          /\ UNCHANGED cro_ret
  /\ UNCHANGED << payload, logVars, available, exitVars, fnVars, proc, outcome, enterVars, orders, calls, audit, cro_queue,
                  child_order_ids, position_amt, mon_idx, mon_flat >>

\* The exchange triggers an open protective order: with closePosition it
\* closes the whole position.
ExchangeFill ==
  /\ proc = "monitor"
  /\ position_amt # 0
  /\ \E i \in 1..Len(orders) :
       /\ orders[i].type \in ProtectiveTypes
       /\ orders[i].status = "NEW"
       /\ orders' = SetStatus(orders, i, "FILLED")
  /\ position_amt' = 0
  /\ UNCHANGED << payload, logVars, available, exitVars, fnVars, proc, pc, outcome, enterVars, calls, audit, croVars, monVars >>

\* The position is closed from outside (manual close, liquidation).
ExchangeFlatten ==
  /\ proc = "monitor"
  /\ position_amt # 0
  /\ position_amt' = 0
  /\ UNCHANGED << payload, logVars, available, exitVars, fnVars, proc, pc, outcome, enterVars, orders, calls, audit, croVars,
                  monVars >>

\* The children handle_enter_trade places, in its order: SL, TP, TS.
ChildOrder(i) ==
  Order(IF i = 1 THEN "STOP_MARKET" ELSE IF i = 2 THEN "TAKE_PROFIT_MARKET"
        ELSE "TRAILING_STOP_MARKET", "SELL", 0, 0, 0, TRUE, "NEW")

InitMonitor ==
  /\ payload = CHOOSE pl \in Payloads : TRUE
  /\ proc = "monitor"
  /\ pc = "mon_position"
  /\ outcome = "running"
  /\ margin = 0
  /\ symbol_info = CHOOSE si \in SymbolInfos : TRUE
  /\ qty = 0
  /\ entry_id = 0
  /\ elapsed = 0
  /\ filled_price = None
  /\ filled_qty = 0
  /\ \E k \in 1..MaxChildren :
       /\ orders = [i \in 1..k |-> ChildOrder(i)]
       /\ child_order_ids = [i \in 1..k |-> i]
  /\ calls = << >>
  /\ audit = << >>
  /\ cro_queue = << >>
  /\ cro_ret = "done"
  /\ position_amt = 1
  /\ mon_idx = 0
  /\ mon_flat = FALSE
  /\ ticks = 0
  /\ pos = NoPosition
  /\ exit_price = 0
  /\ exit_id = 0
  /\ fn_value = 0
  /\ fn_step = 0
  /\ fn_result = None
  /\ fn_again = None
  /\ available = 0
  /\ csv_exists = FALSE
  /\ csv = << >>
  /\ log_pc = << >>
  /\ log_row = << >>

NextMonitor ==
  \/ MonReadPosition
  \/ MonCheckChild
  \/ MonFilled
  \/ MonEndOfChildren
  \/ CroList
  \/ CroNext
  \/ ExchangeFill
  \/ ExchangeFlatten

SpecMonitor == InitMonitor /\ [][NextMonitor]_vars

\* ----------------------------------------------------- handle_exit_trade
MaxExitLingering == 2

\* order_action after normalize_order_action: BUY, SELL or EXIT (FLAT
\* becomes EXIT).
ExitActions == {"BUY", "SELL", "EXIT"}

\* payload["bar"] is Optional for an EXIT intent.
Bars == {None, << 500000 >>}

ExitPayloads ==
  { [order_action |-> a, leverage |-> l, bar |-> b] :
    a \in ExitActions, l \in Leverages, b \in Bars }

\* positionAmt and entryPrice of the instrument on the exchange: short
\* 0.200, flat, long 0.200, entered at 50000.0.
PositionAmts == {0 - 200, 0, 200}
PositionEntryPrice == 500000

\* avgPrice of the filled close.
ExitPrices == {499990, 500000, 500010}

\* free balance of the base asset (spot).
Balances == {0, 205}

Abs(x) == IF x < 0 THEN 0 - x ELSE x

\* create_order arguments of the close, with the exchange's answer.
CloseCall(ok, id, side, quantity, reduceOnly) ==
  [op |-> "create_CLOSE", ok |-> ok, id |-> id, side |-> side, quantity |-> quantity,
   reduceOnly |-> reduceOnly]

\* The exchange takes an order only with a side it knows and a positive
\* quantity, and a reduce-only order only against an open position of the
\* other sign.
Accepts(side, quantity, reduceOnly) ==
  /\ side \in Actions
  /\ quantity > 0
  /\ reduceOnly => Signed(side, 1) * position_amt < 0

\* The P&L taken as (exit - entry) * qty whatever the side.
pnl_AlwaysLong == (exit_price - pos.entryPrice) * qty

\* Lines 821-824.
pnl ==
  IF action = "SELL"
  THEN (exit_price - pos.entryPrice) * qty
  ELSE (pos.entryPrice - exit_price) * qty

\* Lines 789-794 and 858: the futures exit starts with
\* cancel_related_orders; the spot exit reads payload["bar"]["order_price"],
\* which raises when bar is None.
ExitStart ==
  /\ proc = "exit" /\ pc = "exit_start"
  /\ IF is_futures
     THEN /\ pc' = "cro_list"
          /\ cro_ret' = "exit_position"
          /\ UNCHANGED outcome
     ELSE /\ IF IsNone(payload.bar)
             THEN Raise
             ELSE pc' = "exit_symbol_info" /\ UNCHANGED outcome
          /\ UNCHANGED cro_ret
  /\ UNCHANGED << payload, logVars, available, exitVars, fnVars, proc, enterVars, orders, calls, audit, cro_queue,
                  monVars, position_amt >>

\* Lines 801-803: pos = futures_position_information(...)[0], qty, entry_price.
ExitReadPosition ==
  /\ proc = "exit" /\ pc = "exit_position"
  /\ \/ /\ calls' = Append(calls, Call("position_information", FALSE, 0))
        /\ Raise
        /\ UNCHANGED << pos, qty >>
     \/ /\ calls' = Append(calls, Call("position_information", TRUE, 0))
        /\ pos' = [positionAmt |-> position_amt,
                   entryPrice |-> IF position_amt = 0 THEN 0 ELSE PositionEntryPrice]
        /\ qty' = Abs(pos'.positionAmt)
        /\ pc' = "exit_symbol_info"
        /\ UNCHANGED outcome
  /\ UNCHANGED << payload, logVars, available, fnVars, exit_price, exit_id, proc, margin, symbol_info, entry_id,
                  elapsed, filled_price, filled_qty, orders, audit, croVars, monVars,
                  position_amt >>

\* Line 809 (get_symbol_info, evaluated for the arguments of the close) and
\* line 859 (get_symbol_info_spot).
ExitSymbolInfo ==
  /\ proc = "exit" /\ pc = "exit_symbol_info"
  /\ \/ /\ calls' = Append(calls, Call("exchange_info", FALSE, 0))
        /\ Raise
        /\ UNCHANGED symbol_info
     \/ \E si \in SymbolInfos :
          /\ calls' = Append(calls, Call("exchange_info", TRUE, 0))
          /\ symbol_info' = si
          /\ pc' = IF is_futures THEN "exit_place" ELSE "exit_balance"
          /\ UNCHANGED outcome
  /\ UNCHANGED << payload, logVars, available, exitVars, fnVars, proc, margin, qty, entry_id, elapsed, filled_price,
                  filled_qty, orders, audit, croVars, monVars, position_amt >>

\* Lines 862-864: the free balance, floored to the step.
ExitSpotBalance ==
  /\ proc = "exit" /\ pc = "exit_balance"
  /\ \/ /\ calls' = Append(calls, Call("account", FALSE, 0))
        /\ Raise
        /\ UNCHANGED qty
     \/ \E balance \in Balances :
          /\ calls' = Append(calls, Call("account", TRUE, 0))
          /\ qty' = adjust_to_step(balance, 1, symbol_info.step_size)
          /\ pc' = "exit_place"
          /\ UNCHANGED outcome
  /\ UNCHANGED << payload, logVars, available, exitVars, fnVars, proc, margin, symbol_info, entry_id, elapsed,
                  filled_price, filled_qty, orders, audit, croVars, monVars, position_amt >>

\* Lines 805-812 (MARKET, side=action, reduceOnly=True) and 867-873 (spot
\* MARKET, side=action).
ExitPlaceMarket ==
  /\ proc = "exit" /\ pc = "exit_place"
  /\ LET quantity == format_val(qty, QtyDigits, symbol_info.quantity_precision) IN
     \/ /\ calls' = Append(calls, CloseCall(FALSE, 0, action, quantity, is_futures))
        /\ Raise
        /\ UNCHANGED << orders, exit_id >>
     \/ /\ Accepts(action, quantity, is_futures)
        /\ orders' = Append(orders,
             [Order("MARKET", action, quantity, 0, 0, FALSE, "NEW")
                EXCEPT !.reduceOnly = is_futures])
        /\ exit_id' = Len(orders')
        /\ calls' = Append(calls, CloseCall(TRUE, exit_id', action, quantity, is_futures))
        /\ pc' = "exit_get"
        /\ UNCHANGED outcome
  /\ UNCHANGED << payload, logVars, available, fnVars, pos, exit_price, proc, enterVars, audit, croVars, monVars,
                  position_amt >>

\* Lines 815-818 and 876-880: the fill details two seconds later; the
\* status is not looked at.  An order not yet filled reports avgPrice 0 and
\* executedQty 0 (spot: exit_price falls back to order_price).
ExitReadFill ==
  /\ proc = "exit" /\ pc = "exit_get"
  /\ \/ /\ calls' = Append(calls, Call("get_order", FALSE, exit_id))
        /\ Raise
        /\ UNCHANGED << orders, exit_price, filled_qty, position_amt >>
     \/ /\ calls' = Append(calls, Call("get_order", TRUE, exit_id))
        /\ \/ \E p \in ExitPrices :
                /\ orders' = SetStatus(orders, exit_id, "FILLED")
                /\ exit_price' = p
                /\ filled_qty' = orders[exit_id].quantity
                /\ position_amt' = IF is_futures
                                   THEN PositionAfter(orders, exit_id, "FILLED")
                                   ELSE position_amt
           \/ /\ exit_price' = IF is_futures THEN 0 ELSE Val(payload.bar)
              /\ filled_qty' = 0
              /\ UNCHANGED << orders, position_amt >>
        /\ pc' = "exit_fee"
        /\ UNCHANGED outcome
  /\ UNCHANGED << payload, logVars, available, fnVars, pos, exit_id, proc, margin, symbol_info, qty, entry_id,
                  elapsed, filled_price, audit, croVars, monVars >>

\* Lines 819 and 826-854 (futures: fetch_order_commission, P&L, "profit" or
\* "loss" row) and 881-900 (spot: fetch_spot_commission, "exit" row with the
\* notional).  The commission lookups swallow their own failure.
ExitFeeAndLog ==
  /\ proc = "exit" /\ pc = "exit_fee"
  /\ \E fee \in CommissionReplies \cup {0} :
       /\ calls' = Append(calls, Call("account_trades", fee # 0, exit_id))
       /\ audit' = Append(audit,
            IF ~is_futures
            THEN AuditRow("exit", filled_qty, exit_price * filled_qty, fee, exit_id)
            ELSE IF pnl >= 0
            THEN AuditRow("profit", 0, pnl, fee, exit_id)
            ELSE AuditRow("loss", 0, Abs(pnl), fee, exit_id))
  /\ pc' = "done"
  /\ outcome' = "Completed"
  /\ UNCHANGED << payload, logVars, available, exitVars, fnVars, proc, enterVars, orders, croVars, monVars,
                  position_amt >>

InitExit ==
  /\ payload \in ExitPayloads
  /\ proc = "exit"
  /\ pc = "exit_start"
  /\ outcome = "running"
  /\ margin = 0
  /\ symbol_info = CHOOSE si \in SymbolInfos : TRUE
  /\ qty = 0
  /\ entry_id = 0
  /\ elapsed = 0
  /\ filled_price = None
  /\ filled_qty = 0
  /\ \E k \in 0..MaxExitLingering : orders = Lingering(k)
  /\ calls = << >>
  /\ audit = << >>
  /\ cro_queue = << >>
  /\ cro_ret = "done"
  /\ child_order_ids = << >>
  /\ position_amt \in PositionAmts
  /\ mon_idx = 0
  /\ mon_flat = FALSE
  /\ ticks = 0
  /\ pos = NoPosition
  /\ exit_price = 0
  /\ exit_id = 0
  /\ fn_value = 0
  /\ fn_step = 0
  /\ fn_result = None
  /\ fn_again = None
  /\ available = 0
  /\ csv_exists = FALSE
  /\ csv = << >>
  /\ log_pc = << >>
  /\ log_row = << >>

NextExit ==
  \/ ExitStart
  \/ CroList
  \/ CroNext
  \/ ExitReadPosition
  \/ ExitSymbolInfo
  \/ ExitSpotBalance
  \/ ExitPlaceMarket
  \/ ExitReadFill
  \/ ExitFeeAndLog

SpecExit == InitExit /\ [][NextExit]_vars

\* --------------------------------------------------------- adjust_to_step
MaxValue == 60

\* value and step_size in 1/QtyScale: values of both signs, steps 0,
\* 0.001, 0.005, 0.01 and 0.025.
Values == (0 - MaxValue)..MaxValue
Steps == {0, 1, 5, 10, 25}

\* Lines 79-82: value // step_size raises for a step of zero.
AdjustToStep ==
  /\ proc = "adjust_to_step" /\ pc = "call"
  /\ IF fn_step = 0
     THEN fn_result' = None /\ outcome' = "Raised"
     ELSE /\ fn_result' = << adjust_to_step(fn_value, 1, fn_step) >>
          /\ outcome' = "Completed"
  /\ pc' = "done"
  /\ UNCHANGED << payload, logVars, available, exitVars, proc, enterVars, orders, calls, audit,
                  croVars, monVars, position_amt, fn_value, fn_step, fn_again >>

\* The caller hands the result back to adjust_to_step with the same step.
AdjustAgain ==
  /\ proc = "adjust_to_step" /\ pc = "done" /\ outcome = "Completed"
  /\ fn_again' = << adjust_to_step(Val(fn_result), 1, fn_step) >>
  /\ pc' = "twice"
  /\ UNCHANGED << payload, logVars, available, exitVars, proc, outcome, enterVars, orders,
                  calls, audit, croVars, monVars, position_amt, fn_value, fn_step,
                  fn_result >>

InitQuantize ==
  /\ payload = CHOOSE pl \in Payloads : TRUE
  /\ proc = "adjust_to_step"
  /\ pc = "call"
  /\ outcome = "running"
  /\ margin = 0
  /\ symbol_info = CHOOSE si \in SymbolInfos : TRUE
  /\ qty = 0
  /\ entry_id = 0
  /\ elapsed = 0
  /\ filled_price = None
  /\ filled_qty = 0
  /\ orders = << >>
  /\ calls = << >>
  /\ audit = << >>
  /\ cro_queue = << >>
  /\ cro_ret = "done"
  /\ child_order_ids = << >>
  /\ position_amt = 0
  /\ mon_idx = 0
  /\ mon_flat = FALSE
  /\ ticks = 0
  /\ pos = NoPosition
  /\ exit_price = 0
  /\ exit_id = 0
  /\ fn_value \in Values
  /\ fn_step \in Steps
  /\ fn_result = None
  /\ fn_again = None
  /\ available = 0
  /\ csv_exists = FALSE
  /\ csv = << >>
  /\ log_pc = << >>
  /\ log_row = << >>

NextQuantize ==
  \/ AdjustToStep
  \/ AdjustAgain

SpecQuantize == InitQuantize /\ [][NextQuantize]_vars

\* ------------------------------------------ two instruments on one account
\* handle_enter_trade for `ticker` while another invocation of the same code
\* trades `other_ticker` on the same account: the other invocation's orders
\* enter the same order book and draw on the same available balance.
MaxOtherOrders == 1

OtherIdx == {i \in 1..Len(orders) : orders[i].symbol = other_ticker}

OtherOrder(type) ==
  [Order(type, "BUY", 0, 0, 0, type # "LIMIT", "NEW") EXCEPT !.symbol = other_ticker]

\* The initial margin an accepted entry order of the other invocation
\* reserves: its notional is balance * percent_of_equity * leverage, its
\* margin the notional over the leverage.
Reserved(e) == MulDivFloor(available, e, 100 * PctScale)

\* The other invocation's futures_create_order(type='LIMIT') is accepted.
OtherPlaceLimit ==
  /\ Cardinality(OtherIdx) < MaxOtherOrders
  /\ \A i \in OtherIdx : orders[i].type # "LIMIT"
  /\ \E e \in PercentsOfEquity :
       /\ Reserved(e) > 0
       /\ available' = available - Reserved(e)
  /\ orders' = Append(orders, OtherOrder("LIMIT"))
  /\ UNCHANGED << payload, logVars, exitVars, fnVars, proc, pc, outcome, enterVars, calls, audit, croVars,
                  monVars, position_amt >>

\* The other invocation's protective stop is accepted.
OtherPlaceStop ==
  /\ Cardinality(OtherIdx) < MaxOtherOrders
  /\ orders' = Append(orders, OtherOrder("STOP_MARKET"))
  /\ UNCHANGED << payload, logVars, available, exitVars, fnVars, proc, pc, outcome, enterVars, calls, audit,
                  croVars, monVars, position_amt >>

\* The other invocation's cancel_related_orders cancels one of its orders.
OtherCancelRelated ==
  /\ \E i \in OtherIdx :
       /\ orders[i].status = "NEW"
       /\ orders[i].type \in ProtectiveTypes
       /\ orders' = [orders EXCEPT ![i].status = "CANCELED"]
  /\ UNCHANGED << payload, logVars, available, exitVars, fnVars, proc, pc, outcome, enterVars, calls, audit,
                  croVars, monVars, position_amt >>

\* Signals that ask for all three protective orders on a futures instrument.
PairPayloads ==
  { p \in Payloads :
      /\ ~IsNone(p.leverage)
      /\ \A q \in Payloads : q.order_price <= p.order_price
      /\ \A f \in {"take_profit_percent", "stop_loss_percent", "trailing_stop_percentage"} :
           ~IsNone(p[f]) /\ Val(p[f]) >= MinCallback }

\* The account's balance before either invocation placed an order.
StartBalance == CHOOSE m \in Margins : \A n \in Margins : n <= m

InitPair ==
  /\ payload \in PairPayloads
  /\ proc = "enter"
  /\ pc = "parse"
  /\ outcome = "running"
  /\ margin = 0
  /\ symbol_info = CHOOSE si \in SymbolInfos : TRUE
  /\ qty = 0
  /\ entry_id = 0
  /\ elapsed = 0
  /\ filled_price = None
  /\ filled_qty = 0
  /\ \E k \in 0..MaxLingering : orders = Lingering(k)
  /\ position_amt \in PriorPositions
  /\ Len(orders) > 0 => position_amt # 0
  /\ calls = << >>
  /\ audit = << >>
  /\ cro_queue = << >>
  /\ cro_ret = "done"
  /\ child_order_ids = << >>
  /\ mon_idx = 0
  /\ mon_flat = FALSE
  /\ ticks = 0
  /\ pos = NoPosition
  /\ exit_price = 0
  /\ exit_id = 0
  /\ fn_value = 0
  /\ fn_step = 0
  /\ fn_result = None
  /\ fn_again = None
  /\ available = StartBalance
  /\ csv_exists = FALSE
  /\ csv = << >>
  /\ log_pc = << >>
  /\ log_row = << >>

NextPair ==
  \/ ParsePayload
  \/ SetLeverage
  \/ ReadMargin
  \/ GetSymbolInfo
  \/ SizeOrder
  \/ PlaceLimit
  \/ PollEntry
  \/ CancelStaleLimit
  \/ PlaceMarket
  \/ ReadFallbackFill
  \/ FetchFeeAndLog
  \/ CroList
  \/ CroNext
  \/ PlaceSL
  \/ PlaceTP
  \/ PlaceTS
  \/ OtherPlaceLimit
  \/ OtherPlaceStop
  \/ OtherCancelRelated

SpecPair == InitPair /\ [][NextPair]_vars

\* ----------------------------------------------------------- log_transaction
\* Concurrent calls of log_transaction, one per running invocation (each
\* handler logs once), on the one file logs/transactions.csv.
MaxWriters == 3
Writers == 1..MaxWriters

Header == << "Tidspunkt", 0 >>
PriorRow == << "row", 0 >>

\* The row call w writes.
Row(w) == << "row", w >>

\* The call touches nothing but the file.
LogFrame ==
  UNCHANGED << payload, available, exitVars, fnVars, proc, pc, outcome, enterVars,
               orders, calls, audit, croVars, monVars, position_amt >>

\* os.path.exists(csv_path).
LogCheckExists(w) ==
  /\ proc = "log" /\ log_pc[w] = "exists"
  /\ log_pc' = [log_pc EXCEPT ![w] = IF csv_exists THEN "append" ELSE "open_w"]
  /\ UNCHANGED << csv_exists, csv, log_row >>
  /\ LogFrame

\* open(csv_path, "w"): creates or truncates the file.
LogOpenW(w) ==
  /\ proc = "log" /\ log_pc[w] = "open_w"
  /\ csv_exists' = TRUE
  /\ csv' = << >>
  /\ log_pc' = [log_pc EXCEPT ![w] = "header"]
  /\ UNCHANGED log_row
  /\ LogFrame

\* writer.writerow(header), flushed when the `with` closes: written at
\* offset 0 of the descriptor, over whatever the file holds there by then.
LogWriteHeader(w) ==
  /\ proc = "log" /\ log_pc[w] = "header"
  /\ csv' = IF csv = << >> THEN << Header >> ELSE [csv EXCEPT ![1] = Header]
  /\ log_pc' = [log_pc EXCEPT ![w] = "append"]
  /\ UNCHANGED << csv_exists, log_row >>
  /\ LogFrame

\* open(csv_path, "a") and writer.writerow(row): the row goes to the end.
LogAppend(w) ==
  /\ proc = "log" /\ log_pc[w] = "append"
  /\ csv_exists' = TRUE
  /\ csv' = Append(csv, Row(w))
  /\ log_row' = [log_row EXCEPT ![w] = Len(csv')]
  /\ log_pc' = [log_pc EXCEPT ![w] = "done"]
  /\ LogFrame


InitLog ==
  /\ payload = CHOOSE p \in Payloads : TRUE
  /\ proc = "log"
  /\ pc = "done"
  /\ outcome = "running"
  /\ margin = 0
  /\ symbol_info = CHOOSE si \in SymbolInfos : TRUE
  /\ qty = 0
  /\ entry_id = 0
  /\ elapsed = 0
  /\ filled_price = None
  /\ filled_qty = 0
  /\ orders = << >>
  /\ position_amt = 0
  /\ calls = << >>
  /\ audit = << >>
  /\ cro_queue = << >>
  /\ cro_ret = "done"
  /\ child_order_ids = << >>
  /\ mon_idx = 0
  /\ mon_flat = FALSE
  /\ ticks = 0
  /\ pos = NoPosition
  /\ exit_price = 0
  /\ exit_id = 0
  /\ fn_value = 0
  /\ fn_step = 0
  /\ fn_result = None
  /\ fn_again = None
  /\ available = 0
  /\ csv_exists \in BOOLEAN
  /\ csv \in IF csv_exists THEN { << Header >>, << Header, PriorRow >> } ELSE { << >> }
  /\ log_pc = [w \in Writers |-> "exists"]
  /\ log_row = [w \in Writers |-> 0]

NextLog ==
  \/ \E w \in Writers : LogCheckExists(w)
  \/ \E w \in Writers : LogOpenW(w)
  \/ \E w \in Writers : LogWriteHeader(w)
  \/ \E w \in Writers : LogAppend(w)

SpecLog == InitLog /\ [][NextLog]_vars

\* ================================================================ claims
CreateOps == {"create_LIMIT", "create_MARKET", "create_SL", "create_TP", "create_TS"}
ProtectiveOps == {"create_SL", "create_TP", "create_TS"}

CallIdx == 1..Len(calls)
OrderIdx == 1..Len(orders)
Issued(op) == \E i \in CallIdx : calls[i].op = op
CountOp(op) == Cardinality({i \in CallIdx : calls[i].op = op})

HasLimit == \E i \in OrderIdx : orders[i].type = "LIMIT"
LimitId == CHOOSE i \in OrderIdx : orders[i].type = "LIMIT"
HasMarket == \E i \in OrderIdx : orders[i].type = "MARKET"
MarketId == CHOOSE i \in OrderIdx : orders[i].type = "MARKET"

PreSizing == {"parse", "set_leverage", "account", "symbol_info", "size"}
IssuedOk(op) == \E i \in CallIdx : calls[i].op = op /\ calls[i].ok
\* SizeOrder has run: both reads it uses succeeded and the flow is past it.
Sized == proc = "enter" /\ pc \notin PreSizing /\ IssuedOk("account") /\ IssuedOk("exchange_info")

\* C1: whenever the quantized quantity times the order price is below
\* Config.MIN_NOTIONAL, handle_enter_trade has ended with an error and no
\* create_order call of any type (limit, market, protective) was issued.
C1_NoOrderBelowMinNotional ==
  (Sized /\ qty * payload.order_price < MIN_NOTIONAL * QtyScale * PriceScale)
    => /\ pc = "done"
       /\ outcome = "Raised"
       /\ \A i \in CallIdx : calls[i].op \notin CreateOps
       /\ ~HasLimit /\ ~HasMarket

\* A sizing that yields a non-zero quantity whose notional is below the floor.
C1_Witness ==
  /\ Sized
  /\ qty > 0
  /\ qty * payload.order_price < MIN_NOTIONAL * QtyScale * PriceScale
  /\ pc = "done"

MaxPolls == max_wait \div interval
PollsOfLimit == {i \in CallIdx : calls[i].op = "get_order" /\ calls[i].id = LimitId}
TimedOut == HasLimit /\ elapsed >= max_wait

\* C2: in the futures flow, when all polls of the wait budget succeeded and
\* none showed a terminal status, a cancel of the limit order is issued and
\* directly after it exactly one market order of the same side and quantity
\* is submitted; a market order is submitted in no other case.
C2_CancelThenMarketOnTimeout ==
  is_futures =>
    /\ (TimedOut /\ pc # "cancel_limit")
         => \E c \in CallIdx : calls[c].op = "cancel_order" /\ calls[c].id = LimitId
    /\ (TimedOut /\ pc \notin {"cancel_limit", "place_market"})
         => CountOp("create_MARKET") = 1
    /\ \A j \in CallIdx : calls[j].op = "create_MARKET" =>
         /\ CountOp("create_MARKET") = 1
         /\ j > 1 /\ calls[j - 1].op = "cancel_order" /\ calls[j - 1].id = LimitId
         /\ Cardinality(PollsOfLimit) = 20
         /\ \A i \in PollsOfLimit : i < j /\ calls[i].ok
         /\ \A i \in 1..(j - 1) : calls[i].op # "account_trades"
    /\ HasMarket =>
         /\ orders[MarketId].side = orders[LimitId].side
         /\ orders[MarketId].quantity = orders[LimitId].quantity
         /\ Cardinality({i \in OrderIdx : orders[i].type = "MARKET"}) = 1

\* A futures entry that timed out and whose fallback market order was placed.
C2_Witness ==
  /\ is_futures /\ TimedOut /\ HasMarket
  /\ orders[MarketId].quantity > 0
  /\ pc = "done"

\* The limit order was seen CANCELED, REJECTED or EXPIRED by a poll (a
\* CANCELED after the wait budget is the engine's own cancel).
TerminalObserved ==
  /\ HasLimit
  /\ elapsed < max_wait
  /\ orders[LimitId].status \in {"CANCELED", "REJECTED", "EXPIRED"}

\* C3: once a poll shows CANCELED, REJECTED or EXPIRED the flow is Aborted:
\* that poll is its last exchange call, so no market fallback and no
\* protective order follows, and no audit row is written.
C3_TerminalStatusAborts ==
  TerminalObserved =>
    /\ pc = "done" /\ outcome = "Aborted"
    /\ calls[Len(calls)] = Call("get_order", TRUE, LimitId)
    /\ \A i \in CallIdx : calls[i].op \notin {"create_MARKET"} \cup ProtectiveOps
    /\ Len(orders) = LimitId
    /\ audit = << >>

\* EXPIRED seen after some polls that showed the order still open.
C3_Witness ==
  /\ TerminalObserved
  /\ orders[LimitId].status = "EXPIRED"
  /\ elapsed > 0

FailedPolls == {i \in PollsOfLimit : ~calls[i].ok}

\* C4: a failing status poll of the entry limit order ends the flow at once
\* as Aborted: it is the last exchange call of the invocation (no retry, no
\* further poll, cancel, market or protective order) and no audit row is
\* written.
C4_PollFailureAborts ==
  (HasLimit /\ FailedPolls # {}) =>
    /\ FailedPolls = {Len(calls)}
    /\ pc = "done" /\ outcome = "Aborted"
    /\ audit = << >>
    /\ ~HasMarket
    /\ Len(orders) = LimitId

\* A poll that fails after earlier polls succeeded.
C4_Witness ==
  /\ HasLimit /\ FailedPolls # {}
  /\ elapsed > 0

Filled == ~IsNone(filled_price)

\* C5: an invocation writes one "enter" row exactly when it reached Filled
\* and none otherwise; the row names the fallback market order's id when
\* the fallback was taken, else the limit order's id.
C5_OneEnterRecord ==
  proc = "enter" =>
    /\ Len(audit) <= 1
    /\ \A i \in 1..Len(audit) : audit[i].type = "enter"
    /\ pc # "fee" => (Len(audit) = 1 <=> Filled)
    /\ Len(audit) = 1 =>
         audit[1].order_id = IF HasMarket THEN MarketId ELSE LimitId

\* A finished fallback entry: the row names the market order, not the limit.
C5_Witness ==
  /\ proc = "enter" /\ pc = "done"
  /\ HasMarket /\ Len(audit) = 1
  /\ audit[1].order_id = MarketId
  /\ MarketId # LimitId

EnginePlaced(i) == HasLimit /\ i > LimitId
Lev == Val(payload.leverage)

\* floor(price * (1 + p/100/L)) and floor(price * (1 - p/100/L)).
RoiUp(price, p, L) == price + (price * p) \div (Hundred * L)
RoiDown(price, p, L) == price - ((price * p + Hundred * L - 1) \div (Hundred * L))

\* C6: the take-profit and stop-loss trigger prices are the realized entry
\* price moved by the requested percentage divided by the leverage: up for
\* the take-profit of a BUY and the stop-loss of a SELL, down otherwise.
C6_RoiDividedByLeverage ==
  is_futures =>
    \A i \in OrderIdx : EnginePlaced(i) =>
      /\ orders[i].type = "TAKE_PROFIT_MARKET" =>
           orders[i].price =
             IF action = "BUY"
             THEN RoiUp(Val(filled_price), Val(payload.take_profit_percent), Lev)
             ELSE RoiDown(Val(filled_price), Val(payload.take_profit_percent), Lev)
      /\ orders[i].type = "STOP_MARKET" =>
           orders[i].price =
             IF action = "BUY"
             THEN RoiDown(Val(filled_price), Val(payload.stop_loss_percent), Lev)
             ELSE RoiUp(Val(filled_price), Val(payload.stop_loss_percent), Lev)

\* The margin deployed: available_margin * leverage * equity_fraction, in the
\* units in which quantity * price is compared with it.
C7_Budget ==
  margin * Lev * payload.percent_of_equity * ((QtyScale * PriceScale) \div (100 * PctScale))

\* C7: the quantity of the futures limit order is the largest multiple of
\* the step size not above (margin * leverage * equity_fraction) / price;
\* for price 50000, leverage 10, fraction 0.1, margin 10000, step 0.001 it
\* is 0.200, the notional is 10000 and the order is submitted.
C7_EntryQuantity ==
  is_futures =>
    /\ HasLimit =>
         LET q == orders[LimitId].quantity
             step == symbol_info.step_size
         IN /\ q % step = 0
            /\ q * payload.order_price <= C7_Budget
            /\ (q + step) * payload.order_price > C7_Budget
    /\ ( /\ Sized
         /\ payload.order_price = 50000 * PriceScale /\ Lev = 10
         /\ payload.percent_of_equity = 10 * PctScale /\ margin = 10000
         /\ symbol_info.step_size = 1 )
       => /\ qty = 200
          /\ qty * payload.order_price = 10000 * QtyScale * PriceScale
          /\ \/ pc = "place_limit"
             \/ Issued("create_LIMIT")
          /\ HasLimit => orders[LimitId].quantity = 200

\* The scenario of the claim, with the limit order on the exchange.
C7_Witness ==
  /\ is_futures /\ HasLimit
  /\ payload.order_price = 50000 * PriceScale /\ Lev = 10
  /\ payload.percent_of_equity = 10 * PctScale /\ margin = 10000
  /\ symbol_info.step_size = 1
  /\ orders[LimitId].quantity = 200

Roles ==
  { [op |-> "create_SL", pct |-> payload.stop_loss_percent],
    [op |-> "create_TP", pct |-> payload.take_profit_percent],
    [op |-> "create_TS", pct |-> payload.trailing_stop_percentage] }

C9_SupervisionFollowsPlacement ==
  ( /\ proc = "enter" /\ pc = "done"
    /\ \E i \in CallIdx : calls[i].op \in ProtectiveOps /\ calls[i].ok )
  => Issued("position_information")

OpenStatuses == {"NEW", "PARTIALLY_FILLED"}
CancelIssued(i) == \E c \in CallIdx : calls[c].op = "cancel_order" /\ calls[c].id = i

\* The supervisor returned after a status read showed a tracked order
\* FILLED in a tick whose position read was not flat.
ClosedByFillWhileOpen ==
  /\ proc = "monitor" /\ pc = "done"
  /\ ~mon_flat
  /\ Issued("account_trades")

\* C10: when the supervisor has ended on a tracked order seen FILLED with
\* the position still open, a cancel was issued for every other protective
\* order of the instrument that was still open (stated here for the runs in
\* which the listing of the open orders succeeded).
C10_SiblingsCancelledOnFill ==
  (ClosedByFillWhileOpen /\ IssuedOk("open_orders")) =>
    \A i \in OrderIdx :
      (orders[i].type \in ProtectiveTypes /\ orders[i].status \in OpenStatuses)
        => CancelIssued(i)

\* The supervisor returned Closed after it saw a tracked order FILLED (it
\* fetched that order's commission).
ClosedByFill ==
  /\ proc = "monitor" /\ pc = "done" /\ outcome = "Closed"
  /\ Issued("account_trades")

\* C11: a supervision run that ends Closed because a protective order
\* filled has written exactly one audit row for that fill.
C11_OneAuditRecordPerFill ==
  ClosedByFill => Len(audit) = 1

OpenProtective(i) ==
  orders[i].type \in ProtectiveTypes /\ orders[i].status \in OpenStatuses

\* C12: when the supervisor has ended Closed, no take-profit, stop-loss or
\* trailing-stop order of the instrument is still open, whatever the cancel
\* calls answered.
C12_NoOpenProtectiveWhenClosed ==
  (proc = "monitor" /\ pc = "done" /\ outcome = "Closed") =>
    \A i \in OrderIdx : ~OpenProtective(i)

\* C13: in every state of the futures entry flow together with the
\* exchange, an open protective order implies a non-zero position.
C13_OutstandingImpliesPosition ==
  (proc = "enter" /\ is_futures /\ \E i \in OrderIdx : OpenProtective(i))
    => position_amt # 0

EntryTypes == {"LIMIT", "MARKET"}
OutstandingEntries ==
  {i \in OrderIdx : orders[i].type \in EntryTypes /\ orders[i].status \in OpenStatuses}

\* C14: at most one entry order (limit or fallback market) of the
\* invocation is open on the exchange at any time, so the market order is
\* never submitted while the limit order is still live.
C14_AtMostOneEntryOutstanding ==
  proc = "enter" => Cardinality(OutstandingEntries) <= 1

SpotProtectiveTypes == {"STOP_LOSS_LIMIT", "TAKE_PROFIT_LIMIT"}
PlacedProtective ==
  {i \in OrderIdx :
     EnginePlaced(i) /\ orders[i].type \in ProtectiveTypes \cup SpotProtectiveTypes}

\* SELL after a BUY entry, BUY after a SELL entry.
OpposingSide == IF payload.order_action = "BUY" THEN "SELL" ELSE "BUY"

CloseCalls == {c \in CallIdx : calls[c].op = "create_CLOSE"}
FuturesExit == proc = "exit" /\ is_futures
PositionRead == FuturesExit /\ IssuedOk("position_information")

\* C16: a futures exit that read a position of size zero submits no close
\* order, does not end in an error and writes no audit row.
C16_NoOpWhenFlat ==
  (PositionRead /\ pos.positionAmt = 0) =>
    /\ CloseCalls = {}
    /\ outcome # "Raised"
    /\ audit = << >>

\* C17: in the futures exit, once the close order has been submitted a
\* cancel has been issued for every protective order of the instrument that
\* is open: the close is never submitted ahead of a cancellation.
C17_CancelBeforeClose ==
  (FuturesExit /\ CloseCalls # {}) =>
    \A i \in OrderIdx : OpenProtective(i) => CancelIssued(i)

\* C18: the close order of the futures exit is a reduce-only order for the
\* absolute size of the position read, on the side opposing its sign: SELL
\* for a long, BUY for a short, for every validated exit intent.
C18_CloseOpposesPosition ==
  (PositionRead /\ pos.positionAmt # 0) =>
    \A c \in CloseCalls :
      /\ calls[c].reduceOnly
      /\ calls[c].quantity = Abs(pos.positionAmt)
      /\ calls[c].side = IF pos.positionAmt > 0 THEN "SELL" ELSE "BUY"

\* Realized P&L by the direction of the position that was read.
C19_Pnl ==
  IF pos.positionAmt > 0
  THEN (exit_price - pos.entryPrice) * Abs(pos.positionAmt)
  ELSE (pos.entryPrice - exit_price) * Abs(pos.positionAmt)

\* C19: a futures exit never writes an "exit" row nor more than one row; a
\* futures exit that completed wrote exactly one row: "profit" with the
\* P&L when (exit - entry) * qty for a long, (entry - exit) * qty for a
\* short, is not negative, "loss" with its absolute value when it is.
C19_ProfitOrLossRecord ==
  FuturesExit =>
    /\ Len(audit) <= 1
    /\ \A i \in 1..Len(audit) : audit[i].type \in {"profit", "loss"}
    /\ (pc = "done" /\ outcome = "Completed") =>
         /\ Len(audit) = 1
         /\ audit[1].type = IF C19_Pnl >= 0 THEN "profit" ELSE "loss"
         /\ audit[1].notional = Abs(C19_Pnl)
         /\ audit[1].order_id = exit_id
    /\ Len(audit) = 1 => (pc = "done" /\ outcome = "Completed")

\* A short closed above its entry price: a filled BUY and one "loss" row.
C19_Witness ==
  /\ FuturesExit /\ pc = "done" /\ outcome = "Completed"
  /\ pos.positionAmt < 0
  /\ orders[exit_id].status = "FILLED"
  /\ exit_price > pos.entryPrice
  /\ Len(audit) = 1 /\ audit[1].type = "loss" /\ audit[1].notional > 0

\* The entry signal is opposite to the position the instrument holds.
OppositeToPosition ==
  \/ action = "BUY" /\ position_amt < 0
  \/ action = "SELL" /\ position_amt > 0

\* No entry order of the invocation has filled yet: the position is the one
\* the instrument held when the limit order was submitted.
LimitJustPlaced ==
  /\ proc = "enter" /\ is_futures
  /\ HasLimit /\ orders[LimitId].status \in OpenStatuses
  /\ ~HasMarket

\* C20: the entry order is submitted only after a read of the position
\* showed it flat, never while a position of the opposite sign is open.
C20_FlattenBeforeFlip ==
  LimitJustPlaced =>
    /\ ~OppositeToPosition
    /\ position_amt # 0 => IssuedOk("position_information")

Called == proc = "adjust_to_step" /\ pc = "done"

TrailingPlaced ==
  {i \in OrderIdx : EnginePlaced(i) /\ orders[i].type = "TRAILING_STOP_MARKET"}

\* C22: the callback rate of the trailing-stop order is the requested
\* trailing percentage divided by the leverage, raised to 0.1 when below it.
C22_CallbackDividedByLeverage ==
  (proc = "enter" /\ is_futures) =>
    \A i \in TrailingPlaced :
      orders[i].callbackRate * Lev =
        IF Val(payload.trailing_stop_percentage) >= MinCallback * Lev
        THEN Val(payload.trailing_stop_percentage)
        ELSE MinCallback * Lev

BelowFloor ==
  Sized /\ qty * payload.order_price < MIN_NOTIONAL * QtyScale * PriceScale

\* C23 as claimed: when the notional is below the floor the invocation has
\* raised without any call to the exchange.
C23_NoCallBeforeFloorError ==
  BelowFloor => (pc = "done" /\ outcome = "Raised" /\ calls = << >>)

\* C23 amended: when the notional is below the floor the invocation has
\* raised having made exactly the calls the sizing needs, all answered: set
\* leverage, read margin, read instrument rules (spot: rules, then
\* balance), and no other call.
C23_OnlySizingCallsBeforeFloorError ==
  BelowFloor =>
    /\ pc = "done" /\ outcome = "Raised"
    /\ calls = IF is_futures
               THEN << Call("change_leverage", TRUE, 0), Call("account", TRUE, 0),
                       Call("exchange_info", TRUE, 0) >>
               ELSE << Call("exchange_info", TRUE, 0), Call("account", TRUE, 0) >>

\* A futures sizing below the floor, after its three calls.
C23_Witness ==
  /\ BelowFloor /\ is_futures
  /\ Len(calls) = 3
  /\ outcome = "Raised"

OwnIdx == {i \in OrderIdx : orders[i].symbol = ticker}

\* Every order this invocation created, cancelled, read or queued for
\* cancellation is an order on its own instrument.
TargetsOwnInstrument ==
  /\ \A c \in CallIdx :
       calls[c].id \in OrderIdx => orders[calls[c].id].symbol = ticker
  /\ \A k \in 1..Len(cro_queue) : orders[cro_queue[k]].symbol = ticker

\* A step of this invocation, as opposed to one of the other invocation.
OwnStep == calls' # calls \/ pc' # pc

TickReads == {"position_information", "get_order"}

\* C25: a failing position read or status read of a tracked order is the
\* supervisor's last call: supervision is aborted, with no further status
\* check, tick or cancel.
C25_TickFailureAborts ==
  proc = "monitor" =>
    \A c \in CallIdx :
      (calls[c].op \in TickReads /\ ~calls[c].ok) =>
        /\ c = Len(calls)
        /\ pc = "done" /\ outcome = "MonitorAborted"

OmitsPercentage ==
  \/ IsNone(payload.take_profit_percent)
  \/ IsNone(payload.stop_loss_percent)
  \/ IsNone(payload.trailing_stop_percentage)

\* C26: an intent that omits a percentage does not fail for that reason:
\* the invocation never ends in an error before its first exchange call.
C26_OmissionNeverFails ==
  (proc = "enter" /\ OmitsPercentage) =>
    ~(pc = "done" /\ outcome = "Raised" /\ calls = << >>)

FailedProtectiveCancel ==
  \E c \in CallIdx :
    /\ calls[c].op = "cancel_order" /\ ~calls[c].ok
    /\ orders[calls[c].id].type \in ProtectiveTypes

\* C27: after a cancel of one protective order failed, the cancel step has
\* not failed, and once it has returned a cancel was issued for every
\* protective order of the instrument that is open.
C27_FailingCancelTolerated ==
  (proc = "monitor" /\ FailedProtectiveCancel) =>
    /\ outcome # "MonitorAborted"
    /\ pc \notin {"cro_list", "cro_next"} =>
         \A i \in OrderIdx : OpenProtective(i) => CancelIssued(i)

PricedTypes ==
  {"LIMIT", "STOP_MARKET", "TAKE_PROFIT_MARKET", "STOP_LOSS_LIMIT", "TAKE_PROFIT_LIMIT"}

\* C28: the price of every entry and protective order the engine sent is a
\* multiple of the instrument's tick size.
C28_PricesOnTick ==
  (proc = "enter" /\ HasLimit) =>
    \A i \in OrderIdx :
      (i >= LimitId /\ orders[i].type \in PricedTypes)
        => orders[i].price % symbol_info.tick_size = 0

SupervisionPcs == {"poll", "cancel_limit", "place_market", "get_market"}
SupervisionOver == proc = "enter" /\ HasLimit /\ pc \notin SupervisionPcs
EndedWithoutFill ==
  pc = "done" /\ outcome \in {"Aborted", "Raised"} /\ audit = << >>

\* C29: the entry supervision polls the limit order at most 20 times (12 in
\* the spot flow) and always ends, in exactly one of Filled (limit fill or
\* market fallback) and Aborted.
C29_EntrySupervisionTerminates ==
  /\ [](HasLimit => Cardinality(PollsOfLimit) <= IF is_futures THEN 20 ELSE 12)
  /\ [](SupervisionOver => (Filled <=> ~EndedWithoutFill))
  /\ (pc = "poll") ~> SupervisionOver

\* A fallback entry after the 20 polls of the budget.
C29_Witness ==
  /\ SupervisionOver /\ is_futures /\ Filled
  /\ Cardinality(PollsOfLimit) = 20
  /\ HasMarket

\* C30: the supervision loop ends before MaxTicks poll ticks have run, even
\* when every call succeeds, the position stays open and no child fills.
C30_SupervisionBounded ==
  proc = "monitor" => ticks < MaxTicks

Appended == {w \in Writers : log_row[w] # 0}
HeaderRows == {i \in 1..Len(csv) : csv[i] = Header}

\* C31: under every interleaving of log_transaction calls, the row of each
\* call that returned is in the file (none was removed or overwritten) and
\* the file has exactly one header row.
C31_AppendOnly ==
  proc = "log" =>
    /\ \A w \in Appended : \E i \in 1..Len(csv) : csv[i] = Row(w)
    /\ Appended # {} => Cardinality(HeaderRows) = 1

\* The requested trailing rate is below the minimum and the minimum is sent.
Clamped ==
  /\ ~IsNone(payload.trailing_stop_percentage)
  /\ Requested(payload.trailing_stop_percentage)
  /\ Val(payload.trailing_stop_percentage) < MinCallback

\* What the engine emits about the trailing stop of this trade: the log line
\* of the order and the audit rows.
TrailingEvents == << TrailingLogLine(callback_rate), audit >>

\* What it emits for the same trade with a requested rate of exactly 0.1%.
TrailingEvents_ExactMinimum == << TrailingLogLine(MinCallback), audit >>

\* C32: when the trailing callback rate was clamped, what the engine logs and
\* audits differs from what it emits for a requested rate of exactly 0.1%.
C32_ClampDistinguishable ==
  (proc = "enter" /\ is_futures /\ TrailingPlaced # {} /\ Clamped) =>
    TrailingEvents # TrailingEvents_ExactMinimum

\* C33: adjust_to_step is idempotent: applied to its own result with the
\* same step it returns that result.
C33_Idempotent ==
  (proc = "adjust_to_step" /\ pc = "twice") => fn_again = fn_result

\* 0.059 on a step of 0.025 gives 0.050, and 0.050 gives 0.050 again.
C33_Witness ==
  /\ proc = "adjust_to_step" /\ pc = "twice"
  /\ fn_value = 59 /\ fn_step = 25
  /\ fn_again = << 50 >>

\* C34: protective orders are placed and the "enter" row is written only
\* after the entry order the invocation read its fill from (the limit order,
\* or the fallback market order) was seen in status FILLED.
C34_OnlyAfterObservedFill ==
  (proc = "enter" /\ (audit # << >> \/ PlacedProtective # {})) =>
    /\ entry_id \in OrderIdx
    /\ orders[entry_id].type \in {"LIMIT", "MARKET"}
    /\ orders[entry_id].status = "FILLED"

FilledQuantity(i) == IF orders[i].status = "FILLED" THEN orders[i].quantity ELSE 0

\* What the entry orders of the invocation have filled together.
EntryFilledQuantity ==
  (IF HasLimit THEN FilledQuantity(LimitId) ELSE 0)
    + (IF HasMarket THEN FilledQuantity(MarketId) ELSE 0)

\* C35: the limit order and the fallback market order of one invocation
\* together never fill more than the sized quantity.
C35_FilledWithinSized ==
  (proc = "enter" /\ HasLimit) => EntryFilledQuantity <= orders[LimitId].quantity

PendingStatuses == {"NEW", "PARTIALLY_FILLED"}

\* The entry orders of the invocation still open on the exchange.
PendingEntryOrders ==
  {i \in OrderIdx : orders[i].type \in {"LIMIT", "MARKET"} /\ orders[i].status \in PendingStatuses}

\* C36: when the entry flow has ended without a fill (aborted by a failing
\* poll, or by a failed fallback), no entry order of the invocation is still
\* pending on the exchange.
C36_NoPendingEntryAfterAbort ==
  (proc = "enter" /\ EndedWithoutFill) => PendingEntryOrders = {}

====
